---- MODULE Spec2Model ----
(***************************************************************************)
(* Verification model of the gpud poll-and-evaluate pipeline:              *)
(*   - the shared poller and the power / utilization components using it,  *)
(*   - the supervised process runner and its options,                      *)
(*   - the log-tail matcher's options and line filter,                     *)
(*   - the InfiniBand validators over a parsed ibstat sample,              *)
(*   - the hw-slowdown event-frequency evaluation,                         *)
(*   - the Xid component's evaluation of NVML and dmesg errors.            *)
(* Each subsystem has its own specification over its own variables; the    *)
(* other subsystems' variables stay at their idle values.                  *)
(***************************************************************************)
EXTENDS Integers, Sequences, FiniteSets, TLC

\* ------------------------------------------------------------------------
\* Bounds of the model
\* ------------------------------------------------------------------------
MaxTicks == 3
MaxSkipped == 2
MaxCloses == 2
MaxCommands == 2
MaxEnvs == 2
MaxLaunches == 3
MaxFilters == 2
MaxMatchFuncs == 2
MaxCards == 3
MaxEvents == 4
MaxDmesgErrors == 2

\* ------------------------------------------------------------------------
\* Names and distinguished values
\* ------------------------------------------------------------------------
PowerName == "accelerator-nvidia-power"
UtilizationName == "accelerator-nvidia-utilization"
ComponentNames == {PowerName, UtilizationName}

Nil == "nil"
ErrNoData == "no data"
ErrFetch == "fetch failed"
ErrDefaultPollerNotSet == "default nvidia poller is not set"
NilOutput == [type |-> Nil, id |-> 0]
NoItem == [Output |-> NilOutput, Error |-> ErrNoData]

VARIABLES
    \* poller (query.Poller) and the components using it
    defaultPoller,        \* "nil" or the process-wide poller
    firstCfg,             \* configuration of the first setDefaultPoller call (history)
    inflightComponents,   \* names registered by Start and not yet removed by Stop
    loops,                \* number of execution loops running for the identity
    inflight,             \* number of fetches in flight
    skipped,              \* ticks skipped because a fetch was in flight (saturating)
    last,                 \* most recent item, successful or not
    lastSuccess,          \* most recent successful item
    hist,                 \* every completed tick, oldest first (history)
    comp,                 \* per component: "none", "open" (New called), "closed"
    closes,               \* per component: Close calls since its last New (saturating)
    callRet,              \* what the last component call returned
    lastCall              \* the last operation that ran

VARIABLES
    \* process runner: the options (process.Op) and the supervised process
    commandsToRun,            \* sequence of commands, each the first token of its arguments
    bashScriptContentsToRun,  \* "" or the script body
    runAsBashScript,
    envs,                     \* sequence of KEY=VALUE strings: [key, eq (has an "=")]
    restartConfig,            \* [set, Interval]: set = FALSE is the nil pointer
    bashScriptTmpDirectory,
    bashScriptFilePattern,
    applyErr,                 \* "unapplied", or what applyOpts returned
    givenInterval,            \* the interval passed to WithRestartConfig (history)
    givenRunAsBashScript,     \* whether WithRunAsBashScript was used (history)
    procState,                \* "idle", "running", "waiting", "exited", "cancelled"
    timer,                    \* seconds left of the restart wait
    waited,                   \* seconds waited since the last exit
    launches,                 \* launches so far (saturating)
    reported                  \* exits reported upward (saturating)

procOpVars == <<commandsToRun, bashScriptContentsToRun, runAsBashScript, envs,
                restartConfig, bashScriptTmpDirectory, bashScriptFilePattern,
                applyErr, givenInterval, givenRunAsBashScript>>
procRunVars == <<procState, timer, waited, launches, reported>>
procVars == <<procOpVars, procRunVars>>

VARIABLES
    \* log-tail matcher: the options (tail.Op) and the last filtered line
    file,             \* "" or a path
    commands,         \* sequence of commands
    linesToTail,
    matchFuncs,       \* sequence of match functions
    selectFilters,    \* sequence of filters: [Name, Regex, compiled]
    rejectFilters,
    extractTime,      \* "nil", "default" or "custom"
    ProcessMatched,   \* "nil", "noop" or "custom"
    tailApplyErr,     \* "unapplied", or what ApplyOpts returned
    line,             \* the line last given to applyFilter: the set of its words
    filterRet         \* what applyFilter returned for it

tailOpVars == <<file, commands, linesToTail, matchFuncs, selectFilters,
                rejectFilters, extractTime, ProcessMatched, tailApplyErr>>
tailVars == <<tailOpVars, line, filterRet>>

VARIABLES
    \* InfiniBand validators: one ibstat sample and the two checks on it
    cards,            \* the sample: sequence of cards [Name, Port1], textual order
    atLeastPorts,
    atLeastRate,
    validateRet,      \* "unvalidated", or what ValidateIbstatOutput returned
    checkRet          \* what CheckPortsAndRate returned

ibVars == <<cards, atLeastPorts, atLeastRate, validateRet, checkRet>>

VARIABLES
    \* hw-slowdown component: its settings, its event store and the last States call
    stateHWSlowdownEvaluationWindow,                   \* minutes
    stateHWSlowdownEventsThresholdFrequencyPerMinute,  \* tenths of an event per minute
    eventsStore,      \* the stored events: their ages in minutes, newest first
    hwRet             \* what States returned

hwVars == <<stateHWSlowdownEvaluationWindow,
            stateHWSlowdownEventsThresholdFrequencyPerMinute, eventsStore, hwRet>>

VARIABLES
    \* Xid component: one Output and the last Evaluate call on it
    NVMLXidEvent,     \* the NVML event, NoXidEvent for the nil pointer
    DmesgErrors,      \* sequence of dmesg errors
    onlyGPUdCritical, \* the argument of Evaluate
    evalRet           \* what Evaluate returned

xidVars == <<NVMLXidEvent, DmesgErrors, onlyGPUdCritical, evalRet>>

VARIABLES
    \* Xid fetch function (CreateGet): one call at a time, as the poller makes them
    xidEvents,        \* the events queued on the RecvXidEvents channel, oldest first
    ctxDone,          \* the context of the calls is cancelled
    instanceReady,    \* the DefaultInstanceReady channel is closed
    getPc,            \* position of the call: "idle", "select-ready", "select-event"
    getRet,           \* what the last call returned
    received          \* events the current call has taken from the channel (history)

getVars == <<xidEvents, ctxDone, instanceReady, getPc, getRet, received>>

VARIABLES
    \* NVML error classification: one return code and the call on it
    nvmlRet,          \* the nvml.Return under test
    errorString,      \* the driver's text for it, a sequence of pieces
    notSupportRet     \* what IsNotSupportError returned

nsVars == <<nvmlRet, errorString, notSupportRet>>

pollerVars == <<defaultPoller, firstCfg, inflightComponents, loops, inflight, skipped,
                last, lastSuccess, hist, comp, closes, callRet, lastCall>>

vars == <<pollerVars, procVars, tailVars, ibVars, hwVars, xidVars, getVars, nsVars>>

\* What the operations of one subsystem leave alone.
otherThanPoller == <<procVars, tailVars, ibVars, hwVars, xidVars, getVars, nsVars>>
otherThanProc == <<pollerVars, tailVars, ibVars, hwVars, xidVars, getVars, nsVars>>
otherThanTail == <<pollerVars, procVars, ibVars, hwVars, xidVars, getVars, nsVars>>
otherThanIb == <<pollerVars, procVars, tailVars, hwVars, xidVars, getVars, nsVars>>
otherThanHw == <<pollerVars, procVars, tailVars, ibVars, xidVars, getVars, nsVars>>
otherThanXid == <<pollerVars, procVars, tailVars, ibVars, hwVars, getVars, nsVars>>
otherThanGet == <<pollerVars, procVars, tailVars, ibVars, hwVars, xidVars, nsVars>>
otherThanNs == <<pollerVars, procVars, tailVars, ibVars, hwVars, xidVars, getVars>>

\* ------------------------------------------------------------------------
\* Poller: Start, Stop, Last, LastSuccess, LastError
\* ------------------------------------------------------------------------

\* Start(ctx, cfg, name): registers the consumer; the loop is started only
\* when none is running for the identity.
PollerStart(name) ==
    /\ inflightComponents' = inflightComponents \cup {name}
    /\ loops' = IF loops = 0 THEN 1 ELSE loops

\* Stop(name): removes the consumer; the loop halts only when no consumer
\* remains.
PollerStop(name) ==
    /\ inflightComponents' = inflightComponents \ {name}
    /\ loops' = IF inflightComponents \ {name} = {} THEN 0 ELSE loops

Last == IF last = NoItem THEN [item |-> NoItem, err |-> ErrNoData]
        ELSE [item |-> last, err |-> Nil]

LastSuccess == IF lastSuccess = NoItem THEN [item |-> NoItem, err |-> ErrNoData]
               ELSE [item |-> lastSuccess, err |-> Nil]

LastError == last.Error

\* Faulty variant: a due tick starts a fetch even while one is in flight.
TickDue_Overlap ==
    /\ UNCHANGED otherThanPoller
    /\ loops > 0
    /\ Len(hist) + inflight < MaxTicks
    /\ inflight' = inflight + 1
    /\ skipped' = skipped
    /\ lastCall' = [op |-> "TickFetch", name |-> Nil]
    /\ UNCHANGED <<defaultPoller, firstCfg, inflightComponents, loops, last, lastSuccess,
                   hist, comp, closes, callRet>>

\* One poll tick becomes due: skipped when the previous fetch has not
\* returned, otherwise the fetch starts.
TickDue ==
    /\ UNCHANGED otherThanPoller
    /\ loops > 0
    /\ IF inflight > 0
         THEN /\ skipped' = IF skipped < MaxSkipped THEN skipped + 1 ELSE skipped
              /\ inflight' = inflight
              /\ lastCall' = [op |-> "TickSkipped", name |-> Nil]
         ELSE /\ Len(hist) + inflight < MaxTicks
              /\ inflight' = inflight + 1
              /\ skipped' = skipped
              /\ lastCall' = [op |-> "TickFetch", name |-> Nil]
    /\ UNCHANGED <<defaultPoller, firstCfg, inflightComponents, loops, last, lastSuccess,
                   hist, comp, closes, callRet>>

\* The item a fetch produces: the output of tick n, or an error.
FetchedItem(ok, n) ==
    IF ok THEN [Output |-> [type |-> "nvidia_query.Output", id |-> n], Error |-> Nil]
    ELSE [Output |-> NilOutput, Error |-> ErrFetch]

\* The fetch in flight returns (sample, error); the pair is cached.
FetchReturn(ok) ==
    /\ UNCHANGED otherThanPoller
    /\ inflight > 0
    /\ LET item == FetchedItem(ok, Len(hist) + 1) IN
         /\ last' = item
         /\ lastSuccess' = IF ok THEN item ELSE lastSuccess
         /\ hist' = Append(hist, item)
    /\ inflight' = inflight - 1
    /\ lastCall' = [op |-> "FetchReturn", name |-> Nil]
    /\ UNCHANGED <<defaultPoller, firstCfg, inflightComponents, loops, skipped, comp, closes, callRet>>

\* ------------------------------------------------------------------------
\* The process-wide default poller
\* ------------------------------------------------------------------------

\* setDefaultPoller: sync.Once, only the first call constructs the poller.
\* Concurrent callers are serialised by the Once: a call that finds the
\* construction running returns only after it has finished, so the calls
\* take effect one after another.
QueryNew(cfg) == IF cfg = "interval-1m" THEN "poller-1m" ELSE "poller-5m"

getDefaultPoller == defaultPoller

\* Faulty variant: every call constructs a poller and replaces the old one.
SetDefaultPoller_Replaces(cfg) ==
    /\ UNCHANGED otherThanPoller
    /\ defaultPoller' = QueryNew(cfg)
    /\ firstCfg' = IF firstCfg = Nil THEN cfg ELSE firstCfg
    /\ lastCall' = [op |-> "SetDefaultPoller", name |-> cfg]
    /\ UNCHANGED <<inflightComponents, loops, inflight, skipped, last,
                   lastSuccess, hist, comp, closes, callRet>>

SetDefaultPoller(cfg) ==
    /\ UNCHANGED otherThanPoller
    /\ defaultPoller' = IF firstCfg = Nil THEN QueryNew(cfg) ELSE defaultPoller
    /\ firstCfg' = IF firstCfg = Nil THEN cfg ELSE firstCfg
    /\ lastCall' = [op |-> "SetDefaultPoller", name |-> cfg]
    /\ UNCHANGED <<inflightComponents, loops, inflight, skipped, last,
                   lastSuccess, hist, comp, closes, callRet>>

\* ------------------------------------------------------------------------
\* Components: New, States, Close
\* ------------------------------------------------------------------------
NoStates == <<>>

\* New(ctx, cfg): the power component refuses to start without the default
\* poller; otherwise the component registers its own name with the poller.
\* The utilization component does not test for the poller: it is constructed
\* only once the poller exists.
New(c) ==
    /\ UNCHANGED otherThanPoller
    /\ lastCall' = [op |-> "New", name |-> c]
    /\ IF c = PowerName /\ defaultPoller = Nil
         THEN /\ callRet' = [states |-> NoStates, err |-> ErrDefaultPollerNotSet]
              /\ UNCHANGED <<inflightComponents, loops, comp, closes>>
         ELSE /\ defaultPoller # Nil
              /\ PollerStart(c)
              /\ comp' = [comp EXCEPT ![c] = "open"]
              /\ closes' = [closes EXCEPT ![c] = 0]
              /\ callRet' = [states |-> NoStates, err |-> Nil]
    /\ UNCHANGED <<defaultPoller, firstCfg, inflight, skipped, last, lastSuccess, hist>>

\* Output.States() of the power package: one healthy state carrying the
\* sample it was computed from.
OutputStates(output) ==
    [states |-> <<[Name |-> PowerName, Healthy |-> TRUE, Reason |-> "sample", id |-> output.id]>>,
     err |-> Nil]

\* component.States of the power component.
\* Faulty variant: States reads Last() and fails when the newest tick failed.
PowerStates_FromLast ==
    LET l == Last IN
    IF l.err = ErrNoData
      THEN [states |-> <<[Name |-> PowerName, Healthy |-> TRUE, Reason |-> ErrNoData, id |-> 0]>>,
            err |-> Nil]
      ELSE IF l.item.Error # Nil THEN [states |-> NoStates, err |-> l.item.Error]
      ELSE OutputStates(l.item.Output)

\* Faulty variant: without a successful sample States fails with the
\* no-data error.
PowerStates_NoDataIsError ==
    LET ls == LastSuccess IN
    IF ls.err # Nil THEN [states |-> NoStates, err |-> ls.err]
    ELSE IF ls.item.Output.type # "nvidia_query.Output"
      THEN [states |-> NoStates, err |-> "invalid output type"]
    ELSE OutputStates(ls.item.Output)

PowerStates ==
    LET ls == LastSuccess IN
    IF ls.err = ErrNoData
      THEN [states |-> <<[Name |-> PowerName, Healthy |-> TRUE, Reason |-> ErrNoData, id |-> 0]>>,
            err |-> Nil]
      ELSE IF ls.err # Nil THEN [states |-> NoStates, err |-> ls.err]
      ELSE IF ls.item.Output.type # "nvidia_query.Output"
        THEN [states |-> NoStates, err |-> "invalid output type"]
      \* LastError and the age of the sample are only logged
      ELSE OutputStates(ls.item.Output)

\* Output.States() of the utilization package, for a sample without
\* nvidia-smi query errors.
UtilizationOutputStates(output) ==
    [states |-> <<[Name |-> UtilizationName, Healthy |-> TRUE, Error |-> Nil,
                   Reason |-> "sample", id |-> output.id]>>,
     err |-> Nil]

\* A single unhealthy state of the utilization component.
Unhealthy(error, reason) ==
    [states |-> <<[Name |-> UtilizationName, Healthy |-> FALSE, Error |-> error,
                   Reason |-> reason, id |-> 0]>>,
     err |-> Nil]

\* component.States of the utilization component, its tests in the order of
\* the code.
\* Faulty variant: the no-data test comes first and yields an unhealthy
\* state instead of the error.
UtilizationStates_NoDataIsState ==
    LET l == Last IN
    IF l.item = NoItem /\ l.err = ErrNoData THEN Unhealthy(ErrNoData, ErrNoData)
    ELSE IF l.err # Nil THEN [states |-> NoStates, err |-> l.err]
    ELSE IF l.item.Error # Nil THEN Unhealthy(l.item.Error, "last query failed")
    ELSE IF l.item.Output = NilOutput THEN Unhealthy(Nil, "no output")
    ELSE IF l.item.Output.type # "nvidia_query.Output"
      THEN [states |-> NoStates, err |-> "invalid output type"]
    ELSE UtilizationOutputStates(l.item.Output)

UtilizationStates ==
    LET l == Last IN
    IF l.err # Nil THEN [states |-> NoStates, err |-> l.err]
    ELSE IF l.item = NoItem /\ l.err # Nil /\ l.err # ErrNoData
      THEN Unhealthy(ErrNoData, ErrNoData)
    ELSE IF l.item.Error # Nil THEN Unhealthy(l.item.Error, "last query failed")
    ELSE IF l.item.Output = NilOutput THEN Unhealthy(Nil, "no output")
    ELSE IF l.item.Output.type # "nvidia_query.Output"
      THEN [states |-> NoStates, err |-> "invalid output type"]
    ELSE UtilizationOutputStates(l.item.Output)

\* States of an open or closed component: each component's own method.
States(c) ==
    /\ UNCHANGED otherThanPoller
    /\ comp[c] # "none"
    /\ callRet' = IF c = PowerName THEN PowerStates ELSE UtilizationStates
    /\ lastCall' = [op |-> "States", name |-> c]
    /\ UNCHANGED <<defaultPoller, firstCfg, inflightComponents, loops, inflight, skipped,
                   last, lastSuccess, hist, comp, closes>>

\* component.Close: Stop(own name), result ignored, returns nil.
\* Faulty variant: Close halts the shared loop whoever is still registered.
Close_StopsEveryone(c) ==
    /\ UNCHANGED otherThanPoller
    /\ comp[c] # "none"
    /\ inflightComponents' = {}
    /\ loops' = 0
    /\ comp' = [comp EXCEPT ![c] = "closed"]
    /\ closes' = [closes EXCEPT ![c] = IF @ < MaxCloses THEN @ + 1 ELSE @]
    /\ callRet' = [states |-> NoStates, err |-> Nil]
    /\ lastCall' = [op |-> "Close", name |-> c]
    /\ UNCHANGED <<defaultPoller, firstCfg, inflight, skipped, last, lastSuccess, hist>>

\* Faulty variant: Close reports an error when its name was already stopped.
Close_ReturnsStopResult(c) ==
    /\ UNCHANGED otherThanPoller
    /\ comp[c] # "none"
    /\ PollerStop(c)
    /\ comp' = [comp EXCEPT ![c] = "closed"]
    /\ closes' = [closes EXCEPT ![c] = IF @ < MaxCloses THEN @ + 1 ELSE @]
    /\ callRet' = [states |-> NoStates,
                   err |-> IF c \in inflightComponents THEN Nil ELSE "already stopped"]
    /\ lastCall' = [op |-> "Close", name |-> c]
    /\ UNCHANGED <<defaultPoller, firstCfg, inflight, skipped, last, lastSuccess, hist>>

Close(c) ==
    /\ UNCHANGED otherThanPoller
    /\ comp[c] # "none"
    /\ PollerStop(c)
    /\ comp' = [comp EXCEPT ![c] = "closed"]
    /\ closes' = [closes EXCEPT ![c] = IF @ < MaxCloses THEN @ + 1 ELSE @]
    /\ callRet' = [states |-> NoStates, err |-> Nil]
    /\ lastCall' = [op |-> "Close", name |-> c]
    /\ UNCHANGED <<defaultPoller, firstCfg, inflight, skipped, last, lastSuccess, hist>>


\* ------------------------------------------------------------------------
\* Process runner: options
\* ------------------------------------------------------------------------
DefaultBashScriptFilePattern == "gpud-*.bash"
DefaultRestartInterval == 5
OsTempDir == "/tmp"
NoRestartConfig == [set |-> FALSE, Interval |-> 0]

ErrNoCommand == "no command(s) or bash script contents provided"
ErrMultipleCommands == "cannot run multiple commands without a bash script mode"
ErrCommandNotFound == "command not found"
ErrEnvFormat == "invalid environment variable format"
ErrEnvDuplicate == "duplicate environment variable"

\* The executables on the search path.
SearchPath == {"echo"}
commandExists(name) == name \in SearchPath

\* The first command, in order, that does not resolve.
CommandsErr(cmds) ==
    IF \E i \in 1..Len(cmds) : ~commandExists(cmds[i]) THEN ErrCommandNotFound ELSE Nil

\* The environment loop: the first entry, in order, that has no "=" or
\* repeats an earlier key decides the error.
EnvBad(es, i) == ~es[i].eq \/ \E j \in 1..(i-1) : es[j].key = es[i].key
EnvsErr(es) ==
    IF \A i \in 1..Len(es) : ~EnvBad(es, i) THEN Nil
    ELSE LET i == CHOOSE k \in 1..Len(es) :
                     EnvBad(es, k) /\ \A j \in 1..(k-1) : ~EnvBad(es, j)
         IN IF ~es[i].eq THEN ErrEnvFormat ELSE ErrEnvDuplicate

\* The restart interval left at zero becomes 5 seconds.
\* Faulty variant: a zero interval is left at zero.
RestartDefault_KeepsZero(rc) == rc

RestartDefault(rc) ==
    IF rc.set /\ rc.Interval = 0 THEN [rc EXCEPT !.Interval = DefaultRestartInterval]
    ELSE rc

\* A script body switches script mode on when it was not requested.
\* Faulty variant: the requested flag is kept as it is.
ScriptModeDefault_KeepsFlag(script, flag) == flag

ScriptModeDefault(script, flag) ==
    IF script # "" /\ ~flag THEN TRUE ELSE flag

\* What applyOpts returns, its checks in the order of the code.
\* Faulty variant: the check on several commands is left out.
applyOptsErr_NoMultipleCheck ==
    IF Len(commandsToRun) = 0 /\ bashScriptContentsToRun = "" THEN ErrNoCommand
    ELSE IF CommandsErr(commandsToRun) # Nil THEN CommandsErr(commandsToRun)
    ELSE EnvsErr(envs)

\* Faulty variant: the script body counts as script mode in the check.
applyOptsErr_ScriptModeFirst ==
    IF Len(commandsToRun) = 0 /\ bashScriptContentsToRun = "" THEN ErrNoCommand
    ELSE IF /\ ~ScriptModeDefault(bashScriptContentsToRun, runAsBashScript)
            /\ Len(commandsToRun) > 1 THEN ErrMultipleCommands
    ELSE IF CommandsErr(commandsToRun) # Nil THEN CommandsErr(commandsToRun)
    ELSE EnvsErr(envs)

applyOptsErr ==
    IF Len(commandsToRun) = 0 /\ bashScriptContentsToRun = "" THEN ErrNoCommand
    ELSE IF ~runAsBashScript /\ Len(commandsToRun) > 1 THEN ErrMultipleCommands
    ELSE IF CommandsErr(commandsToRun) # Nil THEN CommandsErr(commandsToRun)
    ELSE EnvsErr(envs)

\* applyOpts: the options were applied (the With... functions chose the
\* fields); the checks run, and only when all pass are the defaults filled in.
applyOpts ==
    /\ UNCHANGED otherThanProc
    /\ applyErr = "unapplied"
    /\ applyErr' = applyOptsErr
    /\ IF applyOptsErr # Nil
         THEN UNCHANGED <<restartConfig, runAsBashScript, bashScriptTmpDirectory,
                          bashScriptFilePattern>>
         ELSE /\ restartConfig' = RestartDefault(restartConfig)
              /\ runAsBashScript' =
                   ScriptModeDefault(bashScriptContentsToRun, runAsBashScript)
              /\ bashScriptTmpDirectory' =
                   IF bashScriptTmpDirectory = "" THEN OsTempDir
                   ELSE bashScriptTmpDirectory
              /\ bashScriptFilePattern' =
                   IF bashScriptFilePattern = "" THEN DefaultBashScriptFilePattern
                   ELSE bashScriptFilePattern
    /\ UNCHANGED <<commandsToRun, bashScriptContentsToRun, envs, givenInterval,
                   givenRunAsBashScript, procRunVars>>

\* ------------------------------------------------------------------------
\* Process runner: the supervised process and its restart policy
\* ------------------------------------------------------------------------
Saturating(n, max) == IF n < max THEN n + 1 ELSE n

\* Start: the process is launched once the options were applied without error.
RunnerStart ==
    /\ UNCHANGED otherThanProc
    /\ applyErr = Nil
    /\ procState = "idle"
    /\ procState' = "running"
    /\ launches' = Saturating(launches, MaxLaunches)
    /\ UNCHANGED <<procOpVars, timer, waited, reported>>

\* The process exits: with a restart policy the runner waits the interval,
\* without one the exit is terminal and is reported upward.
ProcessExit ==
    /\ UNCHANGED otherThanProc
    /\ procState = "running"
    /\ IF restartConfig.set
         THEN /\ procState' = "waiting"
              /\ timer' = restartConfig.Interval
              /\ waited' = 0
              /\ reported' = reported
         ELSE /\ procState' = "exited"
              /\ reported' = Saturating(reported, 2)
              /\ UNCHANGED <<timer, waited>>
    /\ UNCHANGED <<procOpVars, launches>>

\* One second of the restart wait passes.
WaitSecond ==
    /\ UNCHANGED otherThanProc
    /\ procState = "waiting"
    /\ timer > 0
    /\ timer' = timer - 1
    /\ waited' = waited + 1
    /\ UNCHANGED <<procOpVars, procState, launches, reported>>

\* The restart wait is over: the process is launched again.
Relaunch ==
    /\ UNCHANGED otherThanProc
    /\ procState = "waiting"
    /\ timer = 0
    /\ procState' = "running"
    /\ launches' = Saturating(launches, MaxLaunches)
    /\ UNCHANGED <<procOpVars, timer, waited, reported>>

\* Cancellation: the process is killed, a pending restart is abandoned.
Cancel ==
    /\ UNCHANGED otherThanProc
    /\ procState # "idle"
    /\ procState' = "cancelled"
    /\ UNCHANGED <<procOpVars, timer, waited, launches, reported>>

\* ------------------------------------------------------------------------
\* Specification of the process runner
\* ------------------------------------------------------------------------
Commands == {"echo", "missing"}
Scripts == {"", "echo hello"}
Envs == {[key |-> "A", eq |-> TRUE], [key |-> "B", eq |-> TRUE], [key |-> "A", eq |-> FALSE]}
RestartIntervals == {0, 1, 2}
TmpDirectories == {"", "/var/tmp"}
FilePatterns == {"", "tmpbash*.bash"}

SeqsUpTo(S, n) == UNION {[1..k -> S] : k \in 0..n}

ProcIdle ==
    /\ commandsToRun = <<>>
    /\ bashScriptContentsToRun = ""
    /\ runAsBashScript = FALSE
    /\ envs = <<>>
    /\ restartConfig = NoRestartConfig
    /\ bashScriptTmpDirectory = ""
    /\ bashScriptFilePattern = ""
    /\ applyErr = "unapplied"
    /\ givenInterval = 0
    /\ givenRunAsBashScript = FALSE
    /\ procState = "idle"
    /\ timer = 0
    /\ waited = 0
    /\ launches = 0
    /\ reported = 0

\* The options as the With... functions leave them, before applyOpts checks them.
ProcInit ==
    /\ commandsToRun \in SeqsUpTo(Commands, MaxCommands)
    /\ bashScriptContentsToRun \in Scripts
    /\ runAsBashScript \in BOOLEAN
    /\ givenRunAsBashScript = runAsBashScript
    /\ envs \in SeqsUpTo(Envs, MaxEnvs)
    /\ \E i \in RestartIntervals, s \in BOOLEAN :
         /\ restartConfig = IF s THEN [set |-> TRUE, Interval |-> i] ELSE NoRestartConfig
         /\ givenInterval = IF s THEN i ELSE 0
    /\ bashScriptTmpDirectory \in TmpDirectories
    /\ bashScriptFilePattern \in FilePatterns
    /\ applyErr = "unapplied"
    /\ procState = "idle"
    /\ timer = 0
    /\ waited = 0
    /\ launches = 0
    /\ reported = 0

ProcNext ==
    \/ applyOpts
    \/ RunnerStart
    \/ ProcessExit
    \/ WaitSecond
    \/ Relaunch
    \/ Cancel

\* ------------------------------------------------------------------------
\* Log-tail matcher: filters and match functions
\* ------------------------------------------------------------------------
DefaultLinesToTail == 100
ErrNoSource == "file or commands must be set"
ErrBothFilters == "cannot set both select and reject filters"
ErrRegexParse == "error parsing regexp"
ErrRegexNotCompiled == "regex has not been compiled"

\* A line is the set of words it contains; the pattern "a" matches every line
\* containing the word a, and "(" is a pattern that does not compile.
Words == {"a", "b"}
BadRegex == "("
NilFilter == [Name |-> Nil, Regex |-> Nil, compiled |-> FALSE]

\* Filter.Compile: compiles the pattern, or fails on a malformed one.
CompileErr(f) == IF f.Regex = BadRegex THEN ErrRegexParse ELSE Nil
Compile(f) == IF CompileErr(f) = Nil THEN [f EXCEPT !.compiled = TRUE] ELSE f

\* Filter.MatchString / MatchBytes: (matched, err); an error for a pattern
\* that has not been compiled.
FilterMatch(f, l) ==
    IF ~f.compiled THEN [matched |-> FALSE, err |-> ErrRegexNotCompiled]
    ELSE [matched |-> f.Regex \in l, err |-> Nil]

\* A match function: the event name for a line it matches, "" otherwise.
MatchFuncCall(mf, l) == IF mf.word \in l THEN mf.eventName ELSE ""

\* ------------------------------------------------------------------------
\* Log-tail matcher: ApplyOpts
\* ------------------------------------------------------------------------
\* Faulty variant: the check looks for more than one filter on each side.
BothFiltersSet_MoreThanOne(sel, rej) == Len(sel) > 1 /\ Len(rej) > 1

BothFiltersSet(sel, rej) == Len(sel) > 0 /\ Len(rej) > 0

\* The compile loop over a filter list: the index of the first filter that
\* does not compile (0: none), the error, and the list as the loop leaves it
\* (the filters before the failing one compiled).
FirstBad(fs) ==
    IF \A i \in 1..Len(fs) : CompileErr(fs[i]) = Nil THEN 0
    ELSE CHOOSE i \in 1..Len(fs) :
            CompileErr(fs[i]) # Nil /\ \A j \in 1..(i-1) : CompileErr(fs[j]) = Nil

CompileAllErr(fs) == IF FirstBad(fs) = 0 THEN Nil ELSE CompileErr(fs[FirstBad(fs)])

\* Faulty variant: only the first filter of a list is compiled.
CompileAll_OnlyFirst(fs) ==
    [i \in 1..Len(fs) |-> IF i = 1 THEN Compile(fs[i]) ELSE fs[i]]

CompileAll(fs) ==
    [i \in 1..Len(fs) |->
        IF FirstBad(fs) = 0 \/ i < FirstBad(fs) THEN Compile(fs[i]) ELSE fs[i]]

\* What ApplyOpts returns, its checks in the order of the code.
ApplyOptsErr ==
    IF file = "" /\ Len(commands) = 0 THEN ErrNoSource
    ELSE IF BothFiltersSet(selectFilters, rejectFilters) THEN ErrBothFilters
    ELSE IF CompileAllErr(selectFilters) # Nil THEN CompileAllErr(selectFilters)
    ELSE CompileAllErr(rejectFilters)

\* ApplyOpts: the options were applied (the With... functions chose the
\* fields); each field is changed only if the code reaches its assignment.
ApplyOpts ==
    /\ UNCHANGED otherThanTail
    /\ tailApplyErr = "unapplied"
    /\ tailApplyErr' = ApplyOptsErr
    /\ linesToTail' =
         IF ApplyOptsErr # ErrNoSource /\ linesToTail = 0 THEN DefaultLinesToTail
         ELSE linesToTail
    /\ selectFilters' =
         IF ApplyOptsErr \in {ErrNoSource, ErrBothFilters} THEN selectFilters
         ELSE CompileAll(selectFilters)
    /\ rejectFilters' =
         IF \/ ApplyOptsErr \in {ErrNoSource, ErrBothFilters}
            \/ CompileAllErr(selectFilters) # Nil
           THEN rejectFilters
         ELSE CompileAll(rejectFilters)
    /\ extractTime' =
         IF ApplyOptsErr = Nil /\ extractTime = Nil THEN "default" ELSE extractTime
    /\ ProcessMatched' =
         IF ApplyOptsErr = Nil /\ ProcessMatched = Nil THEN "noop" ELSE ProcessMatched
    /\ UNCHANGED <<file, commands, matchFuncs, line, filterRet>>

\* ------------------------------------------------------------------------
\* Log-tail matcher: applyFilter
\* ------------------------------------------------------------------------
FilterResult(include, f, e) == [shouldInclude |-> include, matchedFilter |-> f, err |-> e]

\* No match function and no filter is configured.
\* Faulty variant: the early pass-through ignores the match functions.
NoFilters_IgnoresMatchFuncs(mfs, sel, rej) == Len(sel) = 0 /\ Len(rej) = 0

NoFilters(mfs, sel, rej) == Len(mfs) = 0 /\ Len(sel) = 0 /\ Len(rej) = 0

\* The match-function loop: the first non-empty event name in configured
\* order, "" when no function yields one.
\* Faulty variant: the last non-empty event name wins.
FirstEventName_Last(mfs, l) ==
    IF \A i \in 1..Len(mfs) : MatchFuncCall(mfs[i], l) = "" THEN ""
    ELSE MatchFuncCall(mfs[CHOOSE i \in 1..Len(mfs) :
            /\ MatchFuncCall(mfs[i], l) # ""
            /\ \A j \in (i+1)..Len(mfs) : MatchFuncCall(mfs[j], l) = ""], l)

FirstEventName(mfs, l) ==
    IF \A i \in 1..Len(mfs) : MatchFuncCall(mfs[i], l) = "" THEN ""
    ELSE MatchFuncCall(mfs[CHOOSE i \in 1..Len(mfs) :
            /\ MatchFuncCall(mfs[i], l) # ""
            /\ \A j \in 1..(i-1) : MatchFuncCall(mfs[j], l) = ""], l)

\* A filter loop stops at the first filter that matches or fails to match
\* with an error: its index, 0 when the loop runs to the end.
Stops(f, l) == FilterMatch(f, l).matched \/ FilterMatch(f, l).err # Nil

\* Faulty variant: the loop keeps going and the last hit wins.
FirstHit_Last(fs, l) ==
    IF \A i \in 1..Len(fs) : ~Stops(fs[i], l) THEN 0
    ELSE CHOOSE i \in 1..Len(fs) :
            Stops(fs[i], l) /\ \A j \in (i+1)..Len(fs) : ~Stops(fs[j], l)

FirstHit(fs, l) ==
    IF \A i \in 1..Len(fs) : ~Stops(fs[i], l) THEN 0
    ELSE CHOOSE i \in 1..Len(fs) :
            Stops(fs[i], l) /\ \A j \in 1..(i-1) : ~Stops(fs[j], l)

\* The select and reject loops and what follows them.
applySelectReject(sel, rej, l) ==
    LET s == FirstHit(sel, l)
        r == FirstHit(rej, l)
        matchedFilter == IF s = 0 THEN NilFilter ELSE sel[s]
    IN  IF s # 0 /\ FilterMatch(sel[s], l).err # Nil
          THEN FilterResult(FALSE, NilFilter, FilterMatch(sel[s], l).err)
        ELSE IF Len(sel) > 0 /\ s = 0 THEN FilterResult(FALSE, NilFilter, Nil)
        ELSE IF r # 0 /\ FilterMatch(rej[r], l).err # Nil
          THEN FilterResult(FALSE, NilFilter, FilterMatch(rej[r], l).err)
        ELSE IF r # 0 THEN FilterResult(FALSE, NilFilter, Nil)
        ELSE FilterResult(TRUE, matchedFilter, Nil)

\* Faulty variant: once match functions are configured and none yields a
\* name, the line is dropped without a look at the filters.
applyFilter_MatchFuncsDecide(mfs, sel, rej, l) ==
    IF NoFilters(mfs, sel, rej) THEN FilterResult(TRUE, NilFilter, Nil)
    ELSE IF FirstEventName(mfs, l) # ""
      THEN FilterResult(TRUE,
               [Name |-> FirstEventName(mfs, l), Regex |-> Nil, compiled |-> FALSE], Nil)
    ELSE IF Len(mfs) > 0 \/ (Len(sel) = 0 /\ Len(rej) = 0)
      THEN FilterResult(FALSE, NilFilter, Nil)
    ELSE applySelectReject(sel, rej, l)

applyFilter(mfs, sel, rej, l) ==
    IF NoFilters(mfs, sel, rej) THEN FilterResult(TRUE, NilFilter, Nil)
    ELSE IF FirstEventName(mfs, l) # ""
      THEN FilterResult(TRUE,
               [Name |-> FirstEventName(mfs, l), Regex |-> Nil, compiled |-> FALSE], Nil)
    ELSE IF Len(sel) = 0 /\ Len(rej) = 0 THEN FilterResult(FALSE, NilFilter, Nil)
    ELSE applySelectReject(sel, rej, l)

\* One line of the scanned or watched stream is filtered; the matcher runs
\* only on options ApplyOpts accepted.
FilterLine(l) ==
    /\ UNCHANGED otherThanTail
    /\ tailApplyErr = Nil
    /\ line' = l
    /\ filterRet' = applyFilter(matchFuncs, selectFilters, rejectFilters, l)
    /\ UNCHANGED tailOpVars

\* ------------------------------------------------------------------------
\* Specification of the log-tail matcher
\* ------------------------------------------------------------------------
Lines == SUBSET Words
Filters == {[Name |-> "fa", Regex |-> "a", compiled |-> FALSE],
            [Name |-> "fb", Regex |-> "b", compiled |-> FALSE],
            [Name |-> "bad", Regex |-> BadRegex, compiled |-> FALSE]}
MatchFuncs == {[word |-> "a", eventName |-> "event-a"],
               [word |-> "b", eventName |-> "event-b"]}
NoLine == {"(no line)"}
NoFilterRet == FilterResult(FALSE, NilFilter, "uncalled")

TailIdle ==
    /\ file = ""
    /\ commands = <<>>
    /\ linesToTail = 0
    /\ matchFuncs = <<>>
    /\ selectFilters = <<>>
    /\ rejectFilters = <<>>
    /\ extractTime = Nil
    /\ ProcessMatched = Nil
    /\ tailApplyErr = "unapplied"
    /\ line = NoLine
    /\ filterRet = NoFilterRet

\* The options as the With... functions leave them, before ApplyOpts checks them.
TailInit ==
    /\ file \in {"", "/var/log/dmesg"}
    /\ commands \in {<<>>, <<"dmesg">>}
    /\ linesToTail \in {0, 10}
    /\ matchFuncs \in SeqsUpTo(MatchFuncs, MaxMatchFuncs)
    /\ selectFilters \in SeqsUpTo(Filters, MaxFilters)
    /\ rejectFilters \in SeqsUpTo(Filters, MaxFilters)
    /\ extractTime \in {Nil, "custom"}
    /\ ProcessMatched \in {Nil, "custom"}
    /\ tailApplyErr = "unapplied"
    /\ line = NoLine
    /\ filterRet = NoFilterRet

TailNext ==
    \/ ApplyOpts
    \/ \E l \in Lines : FilterLine(l)

\* ------------------------------------------------------------------------
\* InfiniBand validators (query/infiniband)
\* ------------------------------------------------------------------------
ErrIbstatOutputBrokenStateDown == "ibstat output broken: state down"
ErrIbstatOutputBrokenPhysicalDisabled == "ibstat output broken: physical disabled"
SomePortsMightBeDown == "some ports might be down"
SomePortsMustBeMissing == "some ports must be missing"

\* ValidateIbstatOutput: a Down port anywhere in the sample gives the
\* state-down error; failing that, a Disabled port anywhere gives the
\* physical-disabled error.
\* Faulty variant: the first card that is Down or Disabled decides.
ValidateIbstatOutput_FirstOffending(cs) ==
    LET bad == {i \in 1..Len(cs) : cs[i].Port1.State = "Down"
                                   \/ cs[i].Port1.PhysicalState = "Disabled"}
    IN IF bad = {} THEN Nil
       ELSE LET f == CHOOSE i \in bad : \A j \in bad : i <= j
            IN IF cs[f].Port1.State = "Down" THEN ErrIbstatOutputBrokenStateDown
               ELSE ErrIbstatOutputBrokenPhysicalDisabled

\* Faulty variant: the Disabled ports are looked for before the Down ones.
ValidateIbstatOutput_DisabledFirst(cs) ==
    IF \E i \in 1..Len(cs) : cs[i].Port1.PhysicalState = "Disabled"
      THEN ErrIbstatOutputBrokenPhysicalDisabled
    ELSE IF \E i \in 1..Len(cs) : cs[i].Port1.State = "Down"
      THEN ErrIbstatOutputBrokenStateDown
    ELSE Nil

ValidateIbstatOutput(cs) ==
    IF \E i \in 1..Len(cs) : cs[i].Port1.State = "Down"
      THEN ErrIbstatOutputBrokenStateDown
    ELSE IF \E i \in 1..Len(cs) : cs[i].Port1.PhysicalState = "Disabled"
      THEN ErrIbstatOutputBrokenPhysicalDisabled
    ELSE Nil

\* The names of a sequence of cards, in the same order.
CardNames(cs) == [i \in 1..Len(cs) |-> cs[i].Name]

\* IBStatCards.Match: the names, in encounter order, of the cards with the
\* expected physical state and state (an empty expectation matches all)
\* whose rate is at least atLeast.
Match(cs, expectedPhysicalState, expectedState, atLeast) ==
    LET hit(c) == /\ expectedPhysicalState \in {"", c.Port1.PhysicalState}
                  /\ expectedState \in {"", c.Port1.State}
                  /\ c.Port1.Rate >= atLeast
    IN CardNames(SelectSeq(cs, hit))

\* The ports counted as LinkUp: by physical state and rate, any state.
\* Faulty variant: only Active ports are counted.
LinkUpPorts_ActiveOnly(cs, rate) == Match(cs, "LinkUp", "Active", rate)

LinkUpPorts(cs, rate) == Match(cs, "LinkUp", "", rate)

\* The ports that would qualify were they not Disabled.
\* Faulty variant: the rate of a Disabled port is not looked at.
DisabledPorts_AnyRate(cs, rate) == Match(cs, "Disabled", "", 0)

DisabledPorts(cs, rate) == Match(cs, "Disabled", "", rate)

\* A requirement of no port or of no rate is met by any sample.
NothingRequired(ports, rate) == ports <= 0 \/ rate <= 0

NoCheckRet ==
    [done |-> FALSE, err |-> FALSE, linkUp |-> 0, total |-> 0, ports |-> 0,
     rate |-> 0, tail |-> "", disabledCount |-> 0, disabled |-> <<>>]
CheckOk == [NoCheckRet EXCEPT !.done = TRUE]

\* The diagnosis "not enough LinkUp ports, only X LinkUp out of N, expected
\* at least P ports and R Gb/sec rate; <tail>", its numbers and names kept
\* as fields.
Diagnosis(cs, ports, rate) ==
    LET dis == DisabledPorts(cs, rate)
    IN [done |-> TRUE, err |-> TRUE,
        linkUp |-> Len(LinkUpPorts(cs, rate)), total |-> Len(cs),
        ports |-> ports, rate |-> rate,
        tail |-> IF Len(dis) > 0 THEN SomePortsMightBeDown
                 ELSE SomePortsMustBeMissing,
        disabledCount |-> Len(dis), disabled |-> dis]

\* Faulty variant: the requirement is met only by more ports than asked.
CheckPortsAndRate_Strict(cs, ports, rate) ==
    IF NothingRequired(ports, rate) THEN CheckOk
    ELSE IF Len(LinkUpPorts(cs, rate)) > ports THEN CheckOk
    ELSE Diagnosis(cs, ports, rate)

CheckPortsAndRate(cs, ports, rate) ==
    IF NothingRequired(ports, rate) THEN CheckOk
    ELSE IF Len(LinkUpPorts(cs, rate)) >= ports THEN CheckOk
    ELSE Diagnosis(cs, ports, rate)

\* The two calls on the sample at hand.
ValidateSample ==
    /\ UNCHANGED otherThanIb
    /\ validateRet = "unvalidated"
    /\ validateRet' = ValidateIbstatOutput(cards)
    /\ UNCHANGED <<cards, atLeastPorts, atLeastRate, checkRet>>

CheckSample ==
    /\ UNCHANGED otherThanIb
    /\ ~checkRet.done
    /\ checkRet' = CheckPortsAndRate(cards, atLeastPorts, atLeastRate)
    /\ UNCHANGED <<cards, atLeastPorts, atLeastRate, validateRet>>

\* ------------------------------------------------------------------------
\* Inputs of the InfiniBand validators
\* ------------------------------------------------------------------------
PortStates == {"Active", "Down", "Init"}
PortPhysicalStates == {"LinkUp", "Disabled"}
PortRates == {100, 200}
Ports == [State : PortStates, PhysicalState : PortPhysicalStates, Rate : PortRates]
RequiredRates == {0, 200}

IbIdle ==
    /\ cards = <<>>
    /\ atLeastPorts = 0
    /\ atLeastRate = 0
    /\ validateRet = "unvalidated"
    /\ checkRet = NoCheckRet

\* A parsed sample: card i of the text is named mlx5_<i-1> (the name is
\* kept as that number).
IbInit ==
    /\ \E k \in 0..MaxCards : \E ps \in [1..k -> Ports] :
         cards = [i \in 1..k |-> [Name |-> i - 1, Port1 |-> ps[i]]]
    /\ atLeastPorts \in 0..MaxCards
    /\ atLeastRate \in RequiredRates
    /\ validateRet = "unvalidated"
    /\ checkRet = NoCheckRet

IbNext ==
    \/ ValidateSample
    \/ CheckSample

\* ------------------------------------------------------------------------
\* hw-slowdown component: the event-frequency evaluation of States
\* ------------------------------------------------------------------------
HwSlowdownName == "accelerator-nvidia-hw-slowdown"

\* Thresholds are events per minute in tenths (0.6 per minute is 6).
ThresholdScale == 10

\* An event of age a (minutes before now) lies in [now - window, now].
InWindow(a, window) == a >= 0 /\ a <= window

\* The events of the store that lie in the window.
EventsInWindow(store, window) == SelectSeq(store, LAMBDA a : InWindow(a, window))

\* count / window-in-minutes > threshold, for a positive window.
\* Faulty variant: a frequency equal to the threshold is already too high.
FrequencyAboveThreshold_OrEqual(count, window, threshold) ==
    count * ThresholdScale >= threshold * window

FrequencyAboveThreshold(count, window, threshold) ==
    count * ThresholdScale > threshold * window

\* The health of the one state States returns.
HwSlowdownHealthy(store, window, threshold) ==
    IF window <= 0 THEN TRUE
    ELSE ~FrequencyAboveThreshold(Len(EventsInWindow(store, window)), window,
                                  threshold)

NoHwRet == [called |-> FALSE, states |-> <<>>, err |-> Nil]

HwStates ==
    /\ UNCHANGED otherThanHw
    /\ ~hwRet.called
    /\ hwRet' = [called |-> TRUE,
                 states |-> <<[Name |-> HwSlowdownName,
                               Healthy |-> HwSlowdownHealthy(
                                   eventsStore,
                                   stateHWSlowdownEvaluationWindow,
                                   stateHWSlowdownEventsThresholdFrequencyPerMinute)]>>,
                 err |-> Nil]
    /\ UNCHANGED <<stateHWSlowdownEvaluationWindow,
                   stateHWSlowdownEventsThresholdFrequencyPerMinute, eventsStore>>

\* ------------------------------------------------------------------------
\* Inputs of the hw-slowdown evaluation
\* ------------------------------------------------------------------------
EvaluationWindows == {-10, 0, 5, 10}
Thresholds == {-6, 0, 6}
EventAges == {-1, 0, 2, 5, 8}

\* The stores of at most n events, newest first.
StoresUpTo(n) ==
    {st \in SeqsUpTo(EventAges, n) : \A i \in 1..(Len(st) - 1) : st[i] <= st[i + 1]}

HwIdle ==
    /\ stateHWSlowdownEvaluationWindow = 0
    /\ stateHWSlowdownEventsThresholdFrequencyPerMinute = 0
    /\ eventsStore = <<>>
    /\ hwRet = NoHwRet

HwInit ==
    /\ stateHWSlowdownEvaluationWindow \in EvaluationWindows
    /\ stateHWSlowdownEventsThresholdFrequencyPerMinute \in Thresholds
    /\ eventsStore \in StoresUpTo(MaxEvents)
    /\ hwRet = NoHwRet

HwNext == HwStates

\* ------------------------------------------------------------------------
\* Xid component: Output.Evaluate
\* ------------------------------------------------------------------------
NoXidEvent ==
    [present |-> FALSE, Xid |-> 0, Detail |-> FALSE,
     XidCriticalErrorMarkedByNVML |-> FALSE,
     XidCriticalErrorMarkedByGPUd |-> FALSE]

\* A message of the reason: "<source> xid <code> event (critical)" or
\* "(non-critical)"; NoXidErrorFound is "no xid error found".
NoXidErrorFound == [DataSource |-> "", Xid |-> 0, critical |-> FALSE]
XidMessage(source, xid, critical) ==
    [DataSource |-> source, Xid |-> xid, critical |-> critical]

\* reason.Errors[xid] = e
PutError(errors, xid, e) ==
    [x \in (DOMAIN errors) \cup {xid} |-> IF x = xid THEN e ELSE errors[x]]

NewReason == [Messages |-> <<>>, Errors |-> <<>>]

\* The NVML event, when there is one, becomes the record of its code.
WithNVMLXidEvent(reason, ev) ==
    IF ~ev.present THEN reason
    ELSE [Messages |-> Append(reason.Messages,
                              XidMessage("nvml", ev.Xid,
                                         ev.XidCriticalErrorMarkedByGPUd)),
          Errors |-> PutError(reason.Errors, ev.Xid,
                       [DataSource |-> "nvml", Xid |-> ev.Xid,
                        XidCriticalErrorMarkedByNVML |-> ev.XidCriticalErrorMarkedByNVML,
                        XidCriticalErrorMarkedByGPUd |-> ev.XidCriticalErrorMarkedByGPUd])]

\* A dmesg error is passed over when its code already has a record.
\* Faulty variant: the dmesg error replaces the record of its code.
AlreadyDetected_Never(reason, xid) == FALSE

AlreadyDetected(reason, xid) == xid \in DOMAIN reason.Errors

\* One round of the loop over the dmesg errors.
\* Faulty variant: a dmesg error whose detail was not found is entered too.
WithDmesgError_DetailNotChecked(reason, de) ==
    IF ~de.Detail THEN reason
    ELSE IF AlreadyDetected(reason, de.XID) THEN reason
    ELSE [Messages |-> Append(reason.Messages,
                              XidMessage("dmesg", de.XID,
                                         de.CriticalErrorMarkedByGPUd)),
          Errors |-> PutError(reason.Errors, de.XID,
                       [DataSource |-> "dmesg", Xid |-> de.XID,
                        XidCriticalErrorMarkedByNVML |-> FALSE,
                        XidCriticalErrorMarkedByGPUd |-> de.CriticalErrorMarkedByGPUd])]

WithDmesgError(reason, de) ==
    IF ~de.Detail \/ ~de.DetailFound THEN reason
    ELSE IF AlreadyDetected(reason, de.XID) THEN reason
    ELSE [Messages |-> Append(reason.Messages,
                              XidMessage("dmesg", de.XID,
                                         de.CriticalErrorMarkedByGPUd)),
          Errors |-> PutError(reason.Errors, de.XID,
                       [DataSource |-> "dmesg", Xid |-> de.XID,
                        XidCriticalErrorMarkedByNVML |-> FALSE,
                        XidCriticalErrorMarkedByGPUd |-> de.CriticalErrorMarkedByGPUd])]

RECURSIVE WithDmesgErrors(_, _, _)
WithDmesgErrors(reason, des, i) ==
    IF i > Len(des) THEN reason
    ELSE WithDmesgErrors(WithDmesgError(reason, des[i]), des, i + 1)

\* The records marked critical by GPUd.
\* Faulty variant: the records are picked by the NVML severity flag.
Criticals_ByNVML(errors) ==
    [x \in {y \in DOMAIN errors : errors[y].XidCriticalErrorMarkedByNVML}
       |-> errors[x]]

Criticals(errors) ==
    [x \in {y \in DOMAIN errors : errors[y].XidCriticalErrorMarkedByGPUd}
       |-> errors[x]]

\* Nothing to evaluate: no dmesg error, and no NVML event or one without
\* detail.
\* Faulty variant: an NVML event without detail is still evaluated.
NoXidError_EventAbsentOnly(ev, des) == Len(des) = 0 /\ ~ev.present

NoXidError(ev, des) == Len(des) = 0 /\ (~ev.present \/ ~ev.Detail)

NoEvalRet == [called |-> FALSE, Messages |-> <<>>, Errors |-> <<>>,
              healthy |-> TRUE, err |-> Nil]

Evaluate(ev, des, onlyCritical) ==
    IF NoXidError(ev, des)
      THEN [called |-> TRUE, Messages |-> <<NoXidErrorFound>>, Errors |-> <<>>,
            healthy |-> TRUE, err |-> Nil]
    ELSE LET reason == WithDmesgErrors(WithNVMLXidEvent(NewReason, ev), des, 1)
             criticals == Criticals(reason.Errors)
         IN [called |-> TRUE,
             Messages |-> reason.Messages,
             Errors |-> IF onlyCritical THEN criticals ELSE reason.Errors,
             healthy |-> DOMAIN criticals = {},
             err |-> Nil]

EvaluateOutput ==
    /\ UNCHANGED otherThanXid
    /\ ~evalRet.called
    /\ evalRet' = Evaluate(NVMLXidEvent, DmesgErrors, onlyGPUdCritical)
    /\ UNCHANGED <<NVMLXidEvent, DmesgErrors, onlyGPUdCritical>>

\* ------------------------------------------------------------------------
\* Inputs of the Xid evaluation
\* ------------------------------------------------------------------------
Xids == {31, 79}
XidEvents ==
    {NoXidEvent} \cup
    [present : {TRUE}, Xid : Xids, Detail : BOOLEAN,
     XidCriticalErrorMarkedByNVML : BOOLEAN,
     XidCriticalErrorMarkedByGPUd : BOOLEAN]

\* A dmesg error: without a detail it has no code and no criticality.
DmesgErrorValues ==
    [Detail : {TRUE}, DetailFound : BOOLEAN, XID : Xids,
     CriticalErrorMarkedByGPUd : BOOLEAN]
    \cup [Detail : {FALSE}, DetailFound : BOOLEAN, XID : {0},
          CriticalErrorMarkedByGPUd : {FALSE}]

XidIdle ==
    /\ NVMLXidEvent = NoXidEvent
    /\ DmesgErrors = <<>>
    /\ onlyGPUdCritical = FALSE
    /\ evalRet = NoEvalRet

XidInit ==
    /\ NVMLXidEvent \in XidEvents
    /\ DmesgErrors \in SeqsUpTo(DmesgErrorValues, MaxDmesgErrors)
    /\ onlyGPUdCritical \in BOOLEAN
    /\ evalRet = NoEvalRet

XidNext == EvaluateOutput

\* ------------------------------------------------------------------------
\* Xid fetch function (CreateGet)
\* ------------------------------------------------------------------------
MaxQueued == 3
ErrContextCanceled == "context canceled"
\* The nil event of a return without an event.
NilEvent == [Xid |-> 0]
NoGetRet == [returned |-> FALSE, ev |-> NilEvent, err |-> Nil]
GetReturn(ev, err) == [returned |-> TRUE, ev |-> ev, err |-> err]

\* The NVML event loop queues an event on the channel.
XidEventArrives(xid) ==
    /\ UNCHANGED otherThanGet
    /\ Len(xidEvents) < MaxQueued
    /\ xidEvents' = Append(xidEvents, [Xid |-> xid])
    /\ UNCHANGED <<ctxDone, instanceReady, getPc, getRet, received>>

\* The context is cancelled.
CancelContext ==
    /\ UNCHANGED otherThanGet
    /\ ~ctxDone
    /\ ctxDone' = TRUE
    /\ UNCHANGED <<xidEvents, instanceReady, getPc, getRet, received>>

\* The NVML instance becomes ready: its channel is closed.
InstanceBecomesReady ==
    /\ UNCHANGED otherThanGet
    /\ ~instanceReady
    /\ instanceReady' = TRUE
    /\ UNCHANGED <<xidEvents, ctxDone, getPc, getRet, received>>

\* The poller calls the fetch function at a tick.
GetCalled ==
    /\ UNCHANGED otherThanGet
    /\ getPc = "idle"
    /\ getPc' = "select-ready"
    /\ getRet' = NoGetRet
    /\ received' = 0
    /\ UNCHANGED <<xidEvents, ctxDone, instanceReady>>

\* The first select: one of the ready cases is taken, the call waits while
\* none is.
SelectReady ==
    /\ UNCHANGED otherThanGet
    /\ getPc = "select-ready"
    /\ \/ /\ ctxDone
          /\ getPc' = "idle"
          /\ getRet' = GetReturn(NilEvent, ErrContextCanceled)
       \/ /\ instanceReady
          /\ getPc' = "select-event"
          /\ getRet' = getRet
    /\ UNCHANGED <<xidEvents, ctxDone, instanceReady, received>>

\* The second select: one of the ready cases is taken, the default case
\* when none is ready.
\* Faulty variant: the select has no default case.
SelectEvent_NoDefault ==
    /\ UNCHANGED otherThanGet
    /\ getPc = "select-event"
    /\ \/ /\ ctxDone
          /\ getRet' = GetReturn(NilEvent, ErrContextCanceled)
          /\ UNCHANGED <<xidEvents, received>>
       \/ /\ Len(xidEvents) > 0
          /\ getRet' = GetReturn(Head(xidEvents), Nil)
          /\ xidEvents' = Tail(xidEvents)
          /\ received' = received + 1
    /\ getPc' = "idle"
    /\ UNCHANGED <<ctxDone, instanceReady>>

SelectEvent ==
    /\ UNCHANGED otherThanGet
    /\ getPc = "select-event"
    /\ \/ /\ ctxDone
          /\ getRet' = GetReturn(NilEvent, ErrContextCanceled)
          /\ UNCHANGED <<xidEvents, received>>
       \/ /\ Len(xidEvents) > 0
          /\ getRet' = GetReturn(Head(xidEvents), Nil)
          /\ xidEvents' = Tail(xidEvents)
          /\ received' = received + 1
       \/ /\ ~ctxDone
          /\ Len(xidEvents) = 0
          /\ getRet' = GetReturn(NilEvent, Nil)
          /\ UNCHANGED <<xidEvents, received>>
    /\ getPc' = "idle"
    /\ UNCHANGED <<ctxDone, instanceReady>>

GetIdle ==
    /\ xidEvents = <<>>
    /\ ctxDone = FALSE
    /\ instanceReady = FALSE
    /\ getPc = "idle"
    /\ getRet = NoGetRet
    /\ received = 0

GetNext ==
    \/ \E xid \in Xids : XidEventArrives(xid)
    \/ CancelContext
    \/ InstanceBecomesReady
    \/ GetCalled
    \/ SelectReady
    \/ SelectEvent

\* ------------------------------------------------------------------------
\* Specification of the poller and its components
\* ------------------------------------------------------------------------
Configs == {"interval-1m", "interval-5m"}

PollerInit ==
    /\ defaultPoller = Nil
    /\ firstCfg = Nil
    /\ inflightComponents = {}
    /\ loops = 0
    /\ inflight = 0
    /\ skipped = 0
    /\ last = NoItem
    /\ lastSuccess = NoItem
    /\ hist = <<>>
    /\ comp = [c \in ComponentNames |-> "none"]
    /\ closes = [c \in ComponentNames |-> 0]
    /\ callRet = [states |-> NoStates, err |-> Nil]
    /\ lastCall = [op |-> "init", name |-> Nil]

PollerNext ==
    \/ \E cfg \in Configs : SetDefaultPoller(cfg)
    \/ \E c \in ComponentNames : New(c)
    \/ \E c \in ComponentNames : States(c)
    \/ \E c \in ComponentNames : Close(c)
    \/ TickDue
    \/ \E ok \in BOOLEAN : FetchReturn(ok)

\* ------------------------------------------------------------------------
\* NVML error classification (IsNotSupportError)
\* ------------------------------------------------------------------------
MaxPieces == 5

\* An error text is a sequence of pieces: a word in one of three letter
\* cases, a blank, or other text.
NotWords == {"not", "NOT", "Not"}
SupportedWords == {"supported", "SUPPORTED", "Supported"}
Pieces == NotWords \cup SupportedWords \cup {" ", "other"}

\* Lower-casing, piece by piece.
ToLowerPiece(p) ==
    IF p \in NotWords THEN "not"
    ELSE IF p \in SupportedWords THEN "supported"
    ELSE p
ToLower(text) == [i \in 1..Len(text) |-> ToLowerPiece(text[i])]

\* Substring search: pattern occurs in text at some offset.
Contains(text, pattern) ==
    \E k \in 0..(Len(text) - Len(pattern)) :
        \A i \in 1..Len(pattern) : text[k + i] = pattern[i]

NotSupportedPhrase == <<"not", " ", "supported">>

\* The return codes: the driver's own, and one the driver does not define.
SUCCESS == "SUCCESS"
ERROR_NOT_SUPPORTED == "ERROR_NOT_SUPPORTED"
OtherDriverErrors ==
    {"ERROR_UNKNOWN", "ERROR_INVALID_ARGUMENT", "ERROR_UNINITIALIZED",
     "ERROR_NO_PERMISSION", "ERROR_ALREADY_INITIALIZED", "ERROR_INSUFFICIENT_SIZE",
     "ERROR_DRIVER_NOT_LOADED", "ERROR_TIMEOUT", "ERROR_IRQ_ISSUE",
     "ERROR_LIBRARY_NOT_FOUND", "ERROR_FUNCTION_NOT_FOUND",
     "ERROR_CORRUPTED_INFOROM", "ERROR_GPU_IS_LOST", "ERROR_RESET_REQUIRED",
     "ERROR_OPERATING_SYSTEM", "ERROR_MEMORY", "ERROR_NO_DATA"}
CustomReturn == "Return(1000)"
Returns == {SUCCESS, ERROR_NOT_SUPPORTED, CustomReturn} \cup OtherDriverErrors

\* nvml.ErrorString: the driver's texts for its own codes, any text for a
\* code it does not define.
ErrorStrings(r) ==
    IF r = ERROR_NOT_SUPPORTED THEN {<<"Not", " ", "Supported">>}
    ELSE IF r = CustomReturn THEN SeqsUpTo(Pieces, MaxPieces)
    ELSE {<<"other">>}

\* Faulty variant: the text is searched as it is, letter case included.
IsNotSupportError_CaseSensitive(r, text) ==
    IF r = ERROR_NOT_SUPPORTED THEN TRUE
    ELSE Contains(text, NotSupportedPhrase)

IsNotSupportError(r, text) ==
    IF r = ERROR_NOT_SUPPORTED THEN TRUE
    ELSE Contains(ToLower(text), NotSupportedPhrase)

NoNotSupportRet == [called |-> FALSE, value |-> FALSE]

\* One call of IsNotSupportError on the return code.
IsNotSupportErrorCalled ==
    /\ UNCHANGED otherThanNs
    /\ ~notSupportRet.called
    /\ notSupportRet' = [called |-> TRUE,
                         value |-> IsNotSupportError(nvmlRet, errorString)]
    /\ UNCHANGED <<nvmlRet, errorString>>

NsIdle ==
    /\ nvmlRet = SUCCESS
    /\ errorString = <<"other">>
    /\ notSupportRet = NoNotSupportRet

NsInit ==
    /\ nvmlRet \in Returns
    /\ errorString \in ErrorStrings(nvmlRet)
    /\ notSupportRet = NoNotSupportRet

NsNext == IsNotSupportErrorCalled

InitPoller == PollerInit /\ ProcIdle /\ TailIdle /\ IbIdle /\ HwIdle /\ XidIdle /\ GetIdle /\ NsIdle
SpecPoller == InitPoller /\ [][PollerNext]_vars

InitTail == TailInit /\ PollerInit /\ ProcIdle /\ IbIdle /\ HwIdle /\ XidIdle /\ GetIdle /\ NsIdle
SpecTail == InitTail /\ [][TailNext]_vars

InitRunner == ProcInit /\ PollerInit /\ TailIdle /\ IbIdle /\ HwIdle /\ XidIdle /\ GetIdle /\ NsIdle

InitIbstat == IbInit /\ PollerInit /\ ProcIdle /\ TailIdle /\ HwIdle /\ XidIdle /\ GetIdle /\ NsIdle
SpecIbstat == InitIbstat /\ [][IbNext]_vars

InitHwSlowdown == HwInit /\ PollerInit /\ ProcIdle /\ TailIdle /\ IbIdle /\ XidIdle /\ GetIdle /\ NsIdle
SpecHwSlowdown == InitHwSlowdown /\ [][HwNext]_vars

InitXid == XidInit /\ PollerInit /\ ProcIdle /\ TailIdle /\ IbIdle /\ HwIdle /\ GetIdle /\ NsIdle
SpecXid == InitXid /\ [][XidNext]_vars
InitNotSupport == NsInit /\ PollerInit /\ ProcIdle /\ TailIdle /\ IbIdle /\ HwIdle /\ XidIdle /\ GetIdle
SpecNotSupport == InitNotSupport /\ [][NsNext]_vars

InitXidGet == GetIdle /\ PollerInit /\ ProcIdle /\ TailIdle /\ IbIdle /\ HwIdle /\ XidIdle /\ NsIdle
SpecXidGet == InitXidGet /\ [][GetNext]_vars
SpecRunner == InitRunner /\ [][ProcNext]_vars

\* The restart wait is a timer: once started it runs down and fires.
FairSpecRunner == SpecRunner /\ WF_vars(WaitSecond) /\ WF_vars(Relaunch)

\* ------------------------------------------------------------------------
\* Properties of the poller and its components
\* ------------------------------------------------------------------------
IsSuccess(item) == item.Error = Nil
HasSuccess(h) == \E i \in 1..Len(h) : IsSuccess(h[i])
NewestSuccess(h) ==
    h[CHOOSE i \in 1..Len(h) :
        IsSuccess(h[i]) /\ \A j \in (i+1)..Len(h) : ~IsSuccess(h[j])]

\* C1: for one poller identity at most one fetch is in flight in every
\* reachable state; a fetch starts only at a due tick with no fetch in
\* flight, and a tick that becomes due while a fetch is in flight is skipped:
\* it starts no fetch and leaves nothing to run later.
C1_AtMostOneFetchInFlight ==
    /\ [](inflight <= 1)
    /\ [][/\ (inflight' > inflight =>
                inflight = 0 /\ lastCall'.op = "TickFetch")
          /\ (inflight > 0 /\ lastCall'.op \in {"TickSkipped", "TickFetch"} =>
                inflight' = inflight /\ lastCall'.op = "TickSkipped")]_vars

C1_Witness == lastCall.op = "TickSkipped" /\ inflight = 1 /\ skipped = 2

\* C2: once some tick has succeeded, LastSuccess() is the sample of the
\* newest successful tick whatever happened later, LastError() is the error
\* of the newest tick (nil if it succeeded), and the power component's States
\* is computed from that last successful sample, never an error.
C2_LastSuccessSurvivesFailures ==
    HasSuccess(hist) =>
        /\ LastSuccess = [item |-> NewestSuccess(hist), err |-> Nil]
        /\ LastError = hist[Len(hist)].Error
        /\ PowerStates = OutputStates(NewestSuccess(hist).Output)
        /\ (lastCall = [op |-> "States", name |-> PowerName] =>
              /\ callRet.err = Nil
              /\ callRet = OutputStates(NewestSuccess(hist).Output))

C2_Witness ==
    /\ lastCall = [op |-> "States", name |-> PowerName]
    /\ Len(hist) = 3
    /\ IsSuccess(hist[1]) /\ ~IsSuccess(hist[2]) /\ ~IsSuccess(hist[3])
    /\ LastError = ErrFetch
    /\ callRet.err = Nil
    /\ callRet.states[1].id = 1

\* C3: however many consumers have called Start, one loop runs for the
\* identity, every component that is open is still registered, and the loop
\* runs as long as a registered consumer remains: a Close by one component
\* does not halt the loop another open component relies on.
C3_LoopHaltsOnlyWithoutConsumers ==
    /\ loops <= 1
    /\ \A c \in ComponentNames : comp[c] = "open" => c \in inflightComponents
    /\ (inflightComponents # {} => loops = 1)

C3_Witness ==
    /\ comp[PowerName] = "closed"
    /\ comp[UtilizationName] = "open"
    /\ lastCall.op = "TickFetch"
    /\ loops = 1
    /\ inflight = 1

\* C4: Close returns nil every time, and a Close of a component that is
\* already closed leaves the registered consumers and the loop as they were.
C4_CloseIdempotent ==
    [][\A c \in ComponentNames :
         lastCall' = [op |-> "Close", name |-> c] =>
            /\ callRet'.err = Nil
            /\ (comp[c] = "closed" =>
                  /\ inflightComponents' = inflightComponents
                  /\ loops' = loops
                  /\ comp' = comp)]_vars

C4_Witness ==
    /\ lastCall = [op |-> "Close", name |-> PowerName]
    /\ closes[PowerName] = 2
    /\ callRet.err = Nil
    /\ comp[UtilizationName] = "open"
    /\ loops = 1

\* ------------------------------------------------------------------------
\* Properties of the process runner
\* ------------------------------------------------------------------------

\* The interval the runner is to wait: the one given, 5 seconds for zero.
EffectiveInterval ==
    IF givenInterval = 0 THEN DefaultRestartInterval ELSE givenInterval

\* C5: with a restart policy every exit leads to a wait of the configured
\* interval (5 seconds when it was left at zero) and then to a relaunch, time
\* after time, until the runner is cancelled, after which nothing is launched;
\* without a policy the first exit is terminal, is reported once and is never
\* followed by a relaunch.
C5_RestartPolicy ==
    /\ [][/\ (procState # "running" /\ procState' = "running" =>
                \/ procState = "idle"
                \/ /\ procState = "waiting"
                   /\ restartConfig.set
                   /\ waited = EffectiveInterval)
          /\ (procState = "running" /\ procState' \notin {"running", "cancelled"} =>
                IF restartConfig.set
                  THEN procState' = "waiting" /\ waited' = 0 /\ reported' = 0
                  ELSE procState' = "exited" /\ reported = 0 /\ reported' = 1)
          /\ (procState = "cancelled" => procState' = "cancelled")
          /\ (procState = "exited" =>
                procState' \in {"exited", "cancelled"} /\ reported' = reported)]_vars
    /\ [](procState = "exited" => ~restartConfig.set /\ launches = 1 /\ reported = 1)
    /\ [](restartConfig.set => reported = 0)
    /\ (procState = "waiting" ~> procState \in {"running", "cancelled"})

C5_Witness ==
    /\ procState = "running"
    /\ launches = 3
    /\ restartConfig.set
    /\ givenInterval = 0
    /\ waited = 5

\* C11: applyOpts returns the "cannot run multiple commands" error whenever
\* more than one command was given and script mode was not requested, never
\* returns it when script mode was requested, and always rejects options
\* with no command and no script body.
C11_MultipleCommandsNeedScriptMode ==
    [][(applyErr = "unapplied" /\ applyErr' # "unapplied") =>
         /\ (Len(commandsToRun) = 0 /\ bashScriptContentsToRun = "")
               => applyErr' = ErrNoCommand
         /\ (Len(commandsToRun) > 1 /\ ~runAsBashScript)
               => applyErr' = ErrMultipleCommands
         /\ runAsBashScript => applyErr' # ErrMultipleCommands]_vars

\* Two commands that both exist, script mode not requested: rejected.
C11_Witness ==
    /\ applyErr = ErrMultipleCommands
    /\ Len(commandsToRun) = 2
    /\ CommandsErr(commandsToRun) = Nil
    /\ ~runAsBashScript

\* C12 as stated: after applyOpts, options that carry a script body have
\* script mode on.
C12_ScriptModeAfterApplyOpts ==
    (applyErr # "unapplied" /\ bashScriptContentsToRun # "") => runAsBashScript

\* C12 amended: options that applyOpts accepted (it returned nil) and that
\* carry a script body have script mode on, requested or not.
C12_ScriptBodyImpliesScriptMode ==
    (applyErr = Nil /\ bashScriptContentsToRun # "") => runAsBashScript

\* Accepted options with a script body whose script mode was not requested:
\* the flag is on all the same.
C12_Witness ==
    /\ applyErr = Nil
    /\ bashScriptContentsToRun # ""
    /\ runAsBashScript
    /\ ~givenRunAsBashScript

\* ------------------------------------------------------------------------
\* Properties of the log-tail matcher
\* ------------------------------------------------------------------------
HasSource == file # "" \/ Len(commands) > 0
Filtered == tailApplyErr = Nil /\ line # NoLine
Min(S) == CHOOSE x \in S : \A y \in S : x <= y
\* The configured filters, or match functions, whose pattern the line contains.
SelectHits == {i \in 1..Len(selectFilters) : selectFilters[i].Regex \in line}
RejectHits == {i \in 1..Len(rejectFilters) : rejectFilters[i].Regex \in line}
MatchFuncHits == {i \in 1..Len(matchFuncs) : matchFuncs[i].word \in line}

\* C6: with a file or commands set, ApplyOpts returns the configuration error
\* whenever a select filter and a reject filter are both configured, so no
\* accepted configuration has both sets non-empty.
C6_SelectAndRejectExclusive ==
    tailApplyErr # "unapplied" =>
        /\ (HasSource /\ Len(selectFilters) > 0 /\ Len(rejectFilters) > 0 =>
              tailApplyErr = ErrBothFilters)
        /\ (tailApplyErr = Nil =>
              Len(selectFilters) = 0 \/ Len(rejectFilters) = 0)

C6_Witness ==
    /\ tailApplyErr = ErrBothFilters
    /\ HasSource
    /\ Len(selectFilters) = 1
    /\ Len(rejectFilters) = 1
    /\ selectFilters[1].Regex = BadRegex

\* C7: ApplyOpts fails when a select or reject filter does not compile, and
\* once ApplyOpts has returned nil applyFilter returns a nil error for every
\* line: a pattern error is never raised per line.
C7_PatternErrorsOnlyAtApply ==
    /\ (/\ tailApplyErr # "unapplied"
        /\ \/ \E i \in 1..Len(selectFilters) : selectFilters[i].Regex = BadRegex
           \/ \E i \in 1..Len(rejectFilters) : rejectFilters[i].Regex = BadRegex
        => tailApplyErr # Nil)
    /\ (tailApplyErr = Nil =>
          \A l \in Lines :
             applyFilter(matchFuncs, selectFilters, rejectFilters, l).err = Nil)
    /\ (Filtered => filterRet.err = Nil)

C7_Witness ==
    /\ Filtered
    /\ matchFuncs = <<>>
    /\ Len(selectFilters) = 2
    /\ line = {"b"}
    /\ filterRet.err = Nil
    /\ filterRet.shouldInclude
    /\ filterRet.matchedFilter = selectFilters[2]

\* C8: with no match function and at least one filter, a line is included
\* iff (no select filter is configured or one matches it) and no reject
\* filter matches it; an included line carries the first matching select
\* filter in configured order (none when only reject filters exist), a
\* dropped line carries none.
C8_SelectThenReject ==
    (Filtered /\ Len(matchFuncs) = 0
       /\ (Len(selectFilters) > 0 \/ Len(rejectFilters) > 0)) =>
        LET include == /\ (Len(selectFilters) = 0 \/ SelectHits # {})
                       /\ RejectHits = {}
        IN  /\ filterRet.err = Nil
            /\ filterRet.shouldInclude = include
            /\ filterRet.matchedFilter =
                 IF include /\ SelectHits # {} THEN selectFilters[Min(SelectHits)]
                 ELSE NilFilter

C8_Witness ==
    /\ Filtered
    /\ Len(matchFuncs) = 0
    /\ Len(selectFilters) = 2
    /\ selectFilters[1].Regex # selectFilters[2].Regex
    /\ line = {"a", "b"}
    /\ filterRet.shouldInclude
    /\ filterRet.matchedFilter = selectFilters[1]

\* C9: when a match function yields a non-empty name for the line, the line
\* is included with a synthetic filter named by the first such function in
\* configured order, whatever later match functions and the select or reject
\* filters would say.
C9_FirstMatchFuncWins ==
    (Filtered /\ MatchFuncHits # {}) =>
        filterRet = FilterResult(TRUE,
                        [Name |-> matchFuncs[Min(MatchFuncHits)].eventName,
                         Regex |-> Nil, compiled |-> FALSE],
                        Nil)

C9_Witness ==
    /\ Filtered
    /\ Len(matchFuncs) = 2
    /\ matchFuncs[1] # matchFuncs[2]
    /\ line = {"a", "b"}
    /\ RejectHits # {}
    /\ filterRet.shouldInclude
    /\ filterRet.matchedFilter.Name = matchFuncs[1].eventName

\* C10 as stated: whenever no match function yields a name for the line and
\* no select or reject filter is configured, the line is included with no
\* matched filter.
C10_PassThroughWheneverNoMatch ==
    (Filtered /\ MatchFuncHits = {}
       /\ Len(selectFilters) = 0 /\ Len(rejectFilters) = 0) =>
        filterRet = FilterResult(TRUE, NilFilter, Nil)

\* C10: with no select or reject filter configured and no match function
\* yielding a name for the line, the line is included with no matched filter
\* when no match function is configured at all, and is dropped when match
\* functions are configured.
C10_PassThroughOnlyWithoutMatchFuncs ==
    (Filtered /\ MatchFuncHits = {}
       /\ Len(selectFilters) = 0 /\ Len(rejectFilters) = 0) =>
        filterRet = FilterResult(Len(matchFuncs) = 0, NilFilter, Nil)

C10_Witness ==
    /\ Filtered
    /\ Len(matchFuncs) = 0
    /\ Len(selectFilters) = 0 /\ Len(rejectFilters) = 0
    /\ line = {"a"}
    /\ filterRet = FilterResult(TRUE, NilFilter, Nil)

\* ------------------------------------------------------------------------
\* Properties of the InfiniBand validators
\* ------------------------------------------------------------------------
Validated == validateRet # "unvalidated"
DownCards == {i \in 1..Len(cards) : cards[i].Port1.State = "Down"}
DisabledCards == {i \in 1..Len(cards) : cards[i].Port1.PhysicalState = "Disabled"}
OffendingCards == DownCards \cup DisabledCards
FirstOffending == CHOOSE i \in OffendingCards : \A j \in OffendingCards : i <= j

Checked == checkRet.done
ActiveLinkUpCount ==
    Cardinality({i \in 1..Len(cards) :
                   /\ cards[i].Port1.State = "Active"
                   /\ cards[i].Port1.PhysicalState = "LinkUp"
                   /\ cards[i].Port1.Rate >= atLeastRate})
LinkUpCount ==
    Cardinality({i \in 1..Len(cards) :
                   /\ cards[i].Port1.PhysicalState = "LinkUp"
                   /\ cards[i].Port1.Rate >= atLeastRate})
QualifyingDisabled ==
    {i \in 1..Len(cards) : /\ cards[i].Port1.PhysicalState = "Disabled"
                           /\ cards[i].Port1.Rate >= atLeastRate}

\* C15 as stated: the check succeeds iff at least atLeastPorts cards are
\* Active and LinkUp at a rate of at least atLeastRate.
C15_SucceedsIffEnoughActiveLinkUp ==
    Checked => (~checkRet.err <=> ActiveLinkUpCount >= atLeastPorts)

\* C15 amended: for a positive number of ports and a positive rate, the
\* check succeeds iff at least atLeastPorts cards are LinkUp at a rate of
\* at least atLeastRate, whatever their State.
C15_SucceedsIffEnoughLinkUp ==
    (Checked /\ atLeastPorts > 0 /\ atLeastRate > 0) =>
        (~checkRet.err <=> LinkUpCount >= atLeastPorts)

\* Exactly enough ports, one of them LinkUp without being Active: success.
C15_Witness ==
    /\ Checked
    /\ ~checkRet.err
    /\ atLeastPorts > 0 /\ atLeastRate > 0
    /\ LinkUpCount = atLeastPorts
    /\ ActiveLinkUpCount < atLeastPorts

ThreeMixedCards ==
    <<[Name |-> 0, Port1 |-> [State |-> "Active", PhysicalState |-> "LinkUp", Rate |-> 200]],
      [Name |-> 1, Port1 |-> [State |-> "Down", PhysicalState |-> "Disabled", Rate |-> 200]],
      [Name |-> 2, Port1 |-> [State |-> "Init", PhysicalState |-> "LinkUp", Rate |-> 200]]>>

\* C16: the "only X LinkUp" count of a failed check is the number of cards
\* that are LinkUp at a sufficient rate, their State not looked at; the
\* cards Active/LinkUp, Down/Disabled, Init/LinkUp at rate 200 checked with
\* (3, 200) give 2 LinkUp out of 3.
C16_LinkUpCountIgnoresState ==
    /\ (Checked /\ checkRet.err) => checkRet.linkUp = LinkUpCount
    /\ (Checked /\ cards = ThreeMixedCards /\ atLeastPorts = 3 /\ atLeastRate = 200)
         => (checkRet.err /\ checkRet.linkUp = 2 /\ checkRet.total = 3)

C16_Witness ==
    /\ Checked
    /\ cards = ThreeMixedCards
    /\ atLeastPorts = 3
    /\ atLeastRate = 200
    /\ checkRet.linkUp = 2

\* The k-th smallest member of a set of positions.
KthOf(S, k) == CHOOSE i \in S : Cardinality({j \in S : j < i}) = k - 1

\* C17: a failed check reports X = the LinkUp count and N = the number of
\* cards; with K >= 1 Disabled cards of sufficient rate the tail is "some
\* ports might be down" with K and their names in encounter order, and with
\* none it is "some ports must be missing".
C17_DiagnosisTail ==
    (Checked /\ checkRet.err) =>
        /\ checkRet.linkUp = LinkUpCount
        /\ checkRet.total = Len(cards)
        /\ checkRet.ports = atLeastPorts
        /\ checkRet.rate = atLeastRate
        /\ IF QualifyingDisabled # {}
             THEN /\ checkRet.tail = SomePortsMightBeDown
                  /\ checkRet.disabledCount = Cardinality(QualifyingDisabled)
                  /\ Len(checkRet.disabled) = Cardinality(QualifyingDisabled)
                  /\ \A k \in 1..Len(checkRet.disabled) :
                       checkRet.disabled[k] = cards[KthOf(QualifyingDisabled, k)].Name
             ELSE /\ checkRet.tail = SomePortsMustBeMissing
                  /\ checkRet.disabledCount = 0
                  /\ checkRet.disabled = <<>>

\* Two Disabled cards of sufficient rate around a Disabled card whose rate
\* is too low: the two are reported, in order, the third is not.
C17_Witness ==
    /\ Checked
    /\ checkRet.err
    /\ Len(cards) = 3
    /\ QualifyingDisabled = {1, 3}
    /\ cards[2].Port1.PhysicalState = "Disabled"
    /\ checkRet.disabled = <<0, 2>>
    /\ checkRet.tail = SomePortsMightBeDown

\* ------------------------------------------------------------------------
\* Properties of the hw-slowdown evaluation
\* ------------------------------------------------------------------------
InWindowCount ==
    Cardinality({i \in 1..Len(eventsStore) :
                   /\ eventsStore[i] >= 0
                   /\ eventsStore[i] <= stateHWSlowdownEvaluationWindow})

Detailed == {i \in 1..Len(DmesgErrors) : DmesgErrors[i].Detail}
Found == {i \in Detailed : DmesgErrors[i].DetailFound}

\* A found dmesg error is suppressed as a duplicate when the NVML event or
\* an earlier found dmesg error has its code.
Suppressed(i) ==
    \/ NVMLXidEvent.present /\ NVMLXidEvent.Xid = DmesgErrors[i].XID
    \/ \E j \in Found : j < i /\ DmesgErrors[j].XID = DmesgErrors[i].XID

MessagesOf(source, xid) ==
    {k \in 1..Len(evalRet.Messages) :
       /\ evalRet.Messages[k].DataSource = source
       /\ evalRet.Messages[k].Xid = xid}

\* C19: when the NVML event and a dmesg error carry the same code, the
\* merged result (all records, the argument onlyGPUdCritical being false)
\* has exactly one record for that code; whichever view is returned, a
\* record of that code is the NVML one with NVML's flags, there is one nvml
\* message for the code and no dmesg record or message for it.
C19_NVMLWinsOverDmesgDuplicate ==
    (/\ evalRet.called
     /\ NVMLXidEvent.present
     /\ \E i \in Detailed : DmesgErrors[i].XID = NVMLXidEvent.Xid) =>
        LET x == NVMLXidEvent.Xid
        IN /\ ~onlyGPUdCritical => x \in DOMAIN evalRet.Errors
           /\ x \in DOMAIN evalRet.Errors =>
                evalRet.Errors[x] =
                    [DataSource |-> "nvml", Xid |-> x,
                     XidCriticalErrorMarkedByNVML |->
                         NVMLXidEvent.XidCriticalErrorMarkedByNVML,
                     XidCriticalErrorMarkedByGPUd |->
                         NVMLXidEvent.XidCriticalErrorMarkedByGPUd]
           /\ Cardinality(MessagesOf("nvml", x)) = 1
           /\ MessagesOf("dmesg", x) = {}

\* The NVML event is not critical for GPUd, the dmesg error of the same
\* code is: the record is the NVML one and the verdict is healthy.
C19_Witness ==
    /\ evalRet.called
    /\ ~onlyGPUdCritical
    /\ NVMLXidEvent.present
    /\ ~NVMLXidEvent.XidCriticalErrorMarkedByGPUd
    /\ Len(DmesgErrors) = 1
    /\ DmesgErrors[1].Detail /\ DmesgErrors[1].DetailFound
    /\ DmesgErrors[1].XID = NVMLXidEvent.Xid
    /\ DmesgErrors[1].CriticalErrorMarkedByGPUd
    /\ evalRet.Errors[NVMLXidEvent.Xid].DataSource = "nvml"
    /\ evalRet.healthy

\* C20: for every Output the verdict is healthy iff neither the NVML event,
\* when present, nor any found dmesg error that is not suppressed as a
\* duplicate is marked critical by GPUd; the NVML severity flag plays no
\* part.
C20_HealthyIffNoGPUdCriticalRecord ==
    evalRet.called =>
        (evalRet.healthy <=>
            /\ ~(NVMLXidEvent.present /\ NVMLXidEvent.XidCriticalErrorMarkedByGPUd)
            /\ \A i \in Found :
                 ~Suppressed(i) => ~DmesgErrors[i].CriticalErrorMarkedByGPUd)

\* C21: Evaluate(true) and Evaluate(false) of the same Output agree on the
\* verdict and on the messages, and the records of Evaluate(true) are
\* exactly the records of Evaluate(false) that GPUd marked critical.
C21_OnlyCriticalViewKeepsVerdict ==
    evalRet.called =>
        LET view == Evaluate(NVMLXidEvent, DmesgErrors, TRUE)
            full == Evaluate(NVMLXidEvent, DmesgErrors, FALSE)
        IN /\ evalRet = IF onlyGPUdCritical THEN view ELSE full
           /\ view.healthy = full.healthy
           /\ view.Messages = full.Messages
           /\ DOMAIN view.Errors =
                {x \in DOMAIN full.Errors : full.Errors[x].XidCriticalErrorMarkedByGPUd}
           /\ \A x \in DOMAIN view.Errors : view.Errors[x] = full.Errors[x]

\* The view was asked for; the Output has a critical NVML record and a
\* dmesg record of another code that is not critical: one record is kept,
\* two messages are, and the verdict is unhealthy.
C21_Witness ==
    /\ evalRet.called
    /\ onlyGPUdCritical
    /\ NVMLXidEvent.present
    /\ NVMLXidEvent.XidCriticalErrorMarkedByGPUd
    /\ ~NVMLXidEvent.XidCriticalErrorMarkedByNVML
    /\ Len(evalRet.Messages) = 2
    /\ DOMAIN evalRet.Errors = {NVMLXidEvent.Xid}
    /\ ~evalRet.healthy

\* C27: with no dmesg error and an NVML event that is absent or has no
\* detail, Evaluate returns healthy, the one message "no xid error found"
\* and no record, whatever the code and the flags of the event.
C27_NoXidErrorFound ==
    (/\ evalRet.called
     /\ Len(DmesgErrors) = 0
     /\ ~NVMLXidEvent.present \/ ~NVMLXidEvent.Detail) =>
        /\ evalRet.healthy
        /\ evalRet.Messages = <<NoXidErrorFound>>
        /\ DOMAIN evalRet.Errors = {}
        /\ evalRet.err = Nil

\* An event without detail that GPUd marked critical, alone: healthy.
C27_Witness ==
    /\ evalRet.called
    /\ Len(DmesgErrors) = 0
    /\ NVMLXidEvent.present
    /\ ~NVMLXidEvent.Detail
    /\ NVMLXidEvent.XidCriticalErrorMarkedByGPUd
    /\ evalRet.healthy

\* The first found dmesg error of code x, and the flag that decides for x.
FirstFound(x) ==
    CHOOSE i \in Found : /\ DmesgErrors[i].XID = x
                         /\ \A j \in Found : DmesgErrors[j].XID = x => i <= j
NVMLReported(x) == NVMLXidEvent.present /\ NVMLXidEvent.Xid = x
DmesgCodes == {DmesgErrors[i].XID : i \in Found}
DecidingFlag(x) ==
    IF NVMLReported(x) THEN NVMLXidEvent.XidCriticalErrorMarkedByGPUd
    ELSE DmesgErrors[FirstFound(x)].CriticalErrorMarkedByGPUd
Evaluated == Len(DmesgErrors) > 0 \/ (NVMLXidEvent.present /\ NVMLXidEvent.Detail)

\* C28: once there is something to evaluate, the dmesg records are those
\* of the codes of found dmesg errors that NVML did not report, each with
\* the flag of the first found dmesg error of its code; the verdict is
\* unhealthy iff the deciding flag of some code is set (NVML's flag for a
\* code NVML reported, else the first found dmesg error's), so a dmesg
\* error without found detail, a later one or a suppressed one never makes
\* it unhealthy.
C28_FirstDetailedDmesgErrorDecides ==
    evalRet.called =>
        LET full == Evaluate(NVMLXidEvent, DmesgErrors, FALSE).Errors
            codes == DmesgCodes \cup
                     (IF NVMLXidEvent.present THEN {NVMLXidEvent.Xid} ELSE {})
        IN /\ {x \in DOMAIN full : full[x].DataSource = "dmesg"}
                = IF Evaluated THEN {x \in DmesgCodes : ~NVMLReported(x)} ELSE {}
           /\ \A x \in DOMAIN full :
                full[x].XidCriticalErrorMarkedByGPUd = DecidingFlag(x)
           /\ \A x \in DOMAIN evalRet.Errors : evalRet.Errors[x] = full[x]
           /\ (\A x \in codes : ~DecidingFlag(x)) => evalRet.healthy
           /\ Evaluated => (evalRet.healthy => \A x \in codes : ~DecidingFlag(x))

\* Three ways a critical dmesg error is passed over at once would need
\* three errors; two of them: the first error has no found detail and is
\* critical, the second is found, not critical, and NVML reported nothing.
C28_Witness ==
    /\ evalRet.called
    /\ ~NVMLXidEvent.present
    /\ Len(DmesgErrors) = 2
    /\ DmesgErrors[1].Detail /\ ~DmesgErrors[1].DetailFound
    /\ DmesgErrors[1].CriticalErrorMarkedByGPUd
    /\ DmesgErrors[2].Detail /\ DmesgErrors[2].DetailFound
    /\ DmesgErrors[2].XID = DmesgErrors[1].XID
    /\ ~DmesgErrors[2].CriticalErrorMarkedByGPUd
    /\ evalRet.healthy
    /\ ~onlyGPUdCritical
    /\ DOMAIN evalRet.Errors = {DmesgErrors[2].XID}

\* C26: applyOpts checks the number of commands against the requested flag
\* only, before the script body turns script mode on: with more than one
\* command, a script body and no request for script mode it fails with the
\* multiple-commands error, and script mode is still off.
C26_ScriptBodyDoesNotExcuseCommands ==
    (/\ applyErr # "unapplied"
     /\ Len(commandsToRun) > 1
     /\ bashScriptContentsToRun # ""
     /\ ~givenRunAsBashScript) =>
        /\ applyErr = ErrMultipleCommands
        /\ ~runAsBashScript

\* applyOpts ran on two commands that exist, with a script body and
\* without the flag, and failed on the number of commands.
C26_Witness ==
    /\ applyErr = ErrMultipleCommands
    /\ Len(commandsToRun) = 2
    /\ CommandsErr(commandsToRun) = Nil
    /\ bashScriptContentsToRun # ""
    /\ ~givenRunAsBashScript
    /\ ~runAsBashScript

\* C30: when match functions are configured but none yields a name for the
\* line, and select or reject filters are configured, applyFilter returns
\* what it returns for the same line and filters with no match function
\* configured.
C30_FiltersDecideAfterMatchFuncsPass ==
    (/\ Filtered
     /\ Len(matchFuncs) > 0
     /\ MatchFuncHits = {}
     /\ Len(selectFilters) > 0 \/ Len(rejectFilters) > 0) =>
        filterRet = applyFilter(<<>>, selectFilters, rejectFilters, line)

\* Two match functions pass on the line and the second select filter
\* matches it: the line is included with that filter.
C30_Witness ==
    /\ Filtered
    /\ Len(matchFuncs) = 2
    /\ MatchFuncHits = {}
    /\ Len(selectFilters) = 2
    /\ SelectHits = {2}
    /\ filterRet = FilterResult(TRUE, selectFilters[2], Nil)

\* C23: while LastSuccess reports no data, States of the power component
\* returns no error and exactly one state, healthy, whose reason is the
\* no-data message.
C23_PowerNoDataIsHealthy ==
    (lastCall = [op |-> "States", name |-> PowerName]
       /\ LastSuccess.err = ErrNoData) =>
        /\ callRet.err = Nil
        /\ Len(callRet.states) = 1
        /\ callRet.states[1].Healthy
        /\ callRet.states[1].Reason = ErrNoData

\* States was called after two ticks that both failed.
C23_Witness ==
    /\ lastCall = [op |-> "States", name |-> PowerName]
    /\ Len(hist) = 2
    /\ ~HasSuccess(hist)
    /\ callRet.err = Nil
    /\ callRet.states[1].Healthy
    /\ callRet.states[1].Reason = ErrNoData

\* C29: States of the utilization component returns no state and the error
\* whenever Last() returns an error, the no-data error included; no state
\* it returns, healthy or unhealthy, stands for no data.
C29_UtilizationNoDataIsError ==
    lastCall = [op |-> "States", name |-> UtilizationName] =>
        /\ (Last.err # Nil => callRet = [states |-> NoStates, err |-> Last.err])
        /\ (Last.err = ErrNoData <=> callRet.err = ErrNoData)
        /\ \A i \in 1..Len(callRet.states) :
              /\ callRet.states[i].Reason # ErrNoData
              /\ callRet.states[i].Error # ErrNoData

\* States was called before any tick returned.
C29_Witness ==
    /\ lastCall = [op |-> "States", name |-> UtilizationName]
    /\ Len(hist) = 0
    /\ comp[UtilizationName] = "open"
    /\ callRet = [states |-> NoStates, err |-> ErrNoData]

\* C25: the default poller is constructed at most once. Before any
\* setDefaultPoller call getDefaultPoller returns nil, and New of the power
\* component then fails with ErrDefaultPollerNotSet; after any sequence of
\* setDefaultPoller calls getDefaultPoller returns the poller built from
\* the first call's configuration, and no later call replaces it.
C25_DefaultPollerConstructedOnce ==
    /\ [](firstCfg = Nil => getDefaultPoller = Nil)
    /\ [](firstCfg # Nil => getDefaultPoller = QueryNew(firstCfg))
    /\ [][/\ (getDefaultPoller = Nil
                /\ lastCall' = [op |-> "New", name |-> PowerName] =>
                    callRet'.err = ErrDefaultPollerNotSet /\ comp' = comp)
          /\ (getDefaultPoller # Nil => getDefaultPoller' = getDefaultPoller)]_vars

\* A second call with another configuration has returned, and the poller
\* is still the one of the first.
C25_Witness ==
    /\ lastCall.op = "SetDefaultPoller"
    /\ firstCfg = "interval-1m"
    /\ lastCall.name = "interval-5m"
    /\ getDefaultPoller = QueryNew("interval-1m")

\* C24: once the NVML instance is ready and the context is not cancelled,
\* a call of the Xid fetch function never waits for an event: its next step
\* can always be taken, and its second select returns (nil, nil) when no
\* event is queued and otherwise the oldest queued event, which alone
\* leaves the channel; a call takes at most one event; with the context
\* cancelled and no event queued the call returns the context error.
C24_GetNeverWaitsForAnEvent ==
    /\ [](/\ (getPc = "select-ready" /\ instanceReady => ENABLED SelectReady)
          /\ (getPc = "select-event" => instanceReady /\ ENABLED SelectEvent)
          /\ received <= 1)
    /\ [][/\ (getPc = "select-event" /\ getPc' = "idle" =>
                /\ (~ctxDone /\ Len(xidEvents) = 0 =>
                      getRet' = GetReturn(NilEvent, Nil) /\ xidEvents' = xidEvents)
                /\ (~ctxDone /\ Len(xidEvents) > 0 =>
                      /\ getRet' = GetReturn(Head(xidEvents), Nil)
                      /\ xidEvents' = Tail(xidEvents))
                /\ (ctxDone /\ Len(xidEvents) = 0 =>
                      /\ getRet' = GetReturn(NilEvent, ErrContextCanceled)
                      /\ xidEvents' = xidEvents))
          /\ (getPc = "select-ready" /\ getPc' = "idle" =>
                /\ ctxDone
                /\ getRet' = GetReturn(NilEvent, ErrContextCanceled)
                /\ xidEvents' = xidEvents)
          /\ (getPc # "idle" /\ getPc' # "idle" => xidEvents' \in
                {xidEvents} \cup {Append(xidEvents, [Xid |-> x]) : x \in Xids})]_vars

\* A call returned one event while another stays queued for the next tick.
C24_Witness ==
    /\ getPc = "idle"
    /\ instanceReady
    /\ ~ctxDone
    /\ getRet.returned
    /\ getRet.ev.Xid \in Xids
    /\ getRet.err = Nil
    /\ received = 1
    /\ Len(xidEvents) = 1

\* The text holds the two words, in any letter case, one blank apart.
HasNotSupportedWords ==
    \E i \in 1..(Len(errorString) - 2) :
        /\ errorString[i] \in NotWords
        /\ errorString[i + 1] = " "
        /\ errorString[i + 2] \in SupportedWords

\* C22: IsNotSupportError returns true for ERROR_NOT_SUPPORTED and for any
\* return code whose error text holds the words "not supported" in any
\* letter case with any text or blanks around them; it returns false for
\* success, for every other listed driver error, for the empty text and for
\* the two words written together.
C22_NotSupportedByCodeOrText ==
    notSupportRet.called =>
        /\ (nvmlRet = ERROR_NOT_SUPPORTED => notSupportRet.value)
        /\ (HasNotSupportedWords => notSupportRet.value)
        /\ (nvmlRet \in {SUCCESS} \cup OtherDriverErrors => ~notSupportRet.value)
        /\ (nvmlRet = CustomReturn /\ errorString = <<>> => ~notSupportRet.value)
        /\ ((/\ nvmlRet = CustomReturn
             /\ Len(errorString) = 2
             /\ errorString[1] \in NotWords
             /\ errorString[2] \in SupportedWords) => ~notSupportRet.value)

\* A code the driver does not define, whose text has the words in upper
\* case between other text and blanks.
C22_Witness ==
    /\ notSupportRet.called
    /\ notSupportRet.value
    /\ nvmlRet = CustomReturn
    /\ errorString = <<"other", " ", "NOT", " ", "SUPPORTED">>

====
